---- MODULE Spec2Model ----
(***************************************************************************)
(* Model of xfpm_c.py (Fortran-packages-list): file_reader, checker,       *)
(* check_url_exists and the section aggregation loop of triage_lines.      *)
(*                                                                         *)
(* A text is a sequence of one-character strings; the character U+00E9 is  *)
(* written as the token "U00E9".  Positions are 1-based: the model's i is  *)
(* Python's i + 1.                                                         *)
(***************************************************************************)
EXTENDS Integers, Sequences, FiniteSets, TLC

VARIABLES
    infile,                  \* the lines of the input file, as read (argparse FileType)
    debug,                   \* args.debug
    test,                    \* args.test
    stdout_encoding,         \* the encoding of sys.stdout
    raw_data,                \* file_reader's result, triage_lines' argument
    pc,                      \* position of the run in main / triage_lines
    i,                       \* triage_lines: position of the line being processed
    previous_section_title,  \* triage_lines
    intermediate_register,   \* triage_lines: buffered project lines
    affirmative_tests,       \* triage_lines: results of checker for the section
    k,                       \* position of `entry` in the loop over intermediate_register
    out,                     \* what was written to standard output, one item per print
    title_src,               \* history: position of the line held by previous_section_title
    probes,                  \* history: the probes issued so far, in order
    last_probe,              \* the call of check_url_exists made by the last step, if any
    reference                \* history: the outcome of the run without --debug that a
                             \* run with --debug on the same input is compared to

vars == <<infile, debug, test, stdout_encoding, raw_data, pc, i,
          previous_section_title, intermediate_register, affirmative_tests, k,
          out, title_src, probes, last_probe, reference>>

-----------------------------------------------------------------------------
(* Bounds of the model                                                     *)

MaxLines == 3      \* longest short input document
MaxTail == 2       \* lines after the run of blank lines in a long input document

-----------------------------------------------------------------------------
(* Characters and strings                                                  *)

Upper == <<"A","B","C","D","E","F","G","H","I","J","K","L","M",
           "N","O","P","Q","R","S","T","U","V","W","X","Y","Z">>
Lower == <<"a","b","c","d","e","f","g","h","i","j","k","l","m",
           "n","o","p","q","r","s","t","u","v","w","x","y","z">>

IndexIn(c, seq) == CHOOSE n \in 1..Len(seq) : seq[n] = c
IsIn(c, seq) == \E n \in 1..Len(seq) : seq[n] = c

Punctuation == {"\n", " ", "#", "(", ")", "*", ".", "/", ":", "[", "]", "U00E9"}
Alphabet == {Upper[n] : n \in 1..26} \cup {Lower[n] : n \in 1..26} \cup Punctuation

\* the code point of a character
Ord(c) ==
    IF IsIn(c, Upper) THEN 64 + IndexIn(c, Upper)
    ELSE IF IsIn(c, Lower) THEN 96 + IndexIn(c, Lower)
    ELSE CASE c = "\n" -> 10
           [] c = " " -> 32
           [] c = "#" -> 35
           [] c = "(" -> 40
           [] c = ")" -> 41
           [] c = "*" -> 42
           [] c = "." -> 46
           [] c = "/" -> 47
           [] c = ":" -> 58
           [] c = "[" -> 91
           [] c = "]" -> 93
           [] c = "U00E9" -> 233

\* str.casefold, character by character
CasefoldChar(c) == IF IsIn(c, Upper) THEN Lower[IndexIn(c, Upper)] ELSE c
Casefold(s) == [n \in 1..Len(s) |-> CasefoldChar(s[n])]

\* Python's s < t on strings: lexicographic by code point
StrLess(s, t) ==
    \E n \in 1..(Len(t)) :
        /\ \A m \in 1..(n - 1) : m <= Len(s) /\ s[m] = t[m]
        /\ \/ n = Len(s) + 1
           \/ n <= Len(s) /\ Ord(s[n]) < Ord(t[n])

IsSpace(c) == c \in {" ", "\n"}

\* str.strip()
Strip(s) ==
    LET keep == {n \in 1..Len(s) : ~IsSpace(s[n])}
        lo == CHOOSE n \in keep : \A m \in keep : n <= m
        hi == CHOOSE n \in keep : \A m \in keep : m <= n
    IN IF keep = {} THEN <<>> ELSE SubSeq(s, lo, hi)

\* str.startswith
StartsWith(s, p) == Len(s) >= Len(p) /\ SubSeq(s, 1, Len(p)) = p

Min(S) == CHOOSE n \in S : \A m \in S : n <= m

-----------------------------------------------------------------------------
(* Program constants                                                       *)

TitlePrefix == <<"#","#"," ","F","o","r","t","r","a","n"," ","c","o","d","e",
                 " ","o","n"," ","G","i","t","H","u","b">>
FpmSuffix == <<"/","b","l","o","b","/","m","a","s","t","e","r","/",
               "f","p","m",".","t","o","m","l">>
max_lines_test == 300
test_help_lines == 125    \* get_args: "constrain a test run to 125 lines output"
TransientStatuses == {500, 502, 503, 504}   \* status_forcelist of the unused session

-----------------------------------------------------------------------------
(* The input lines of the model                                            *)

L_title == TitlePrefix \o <<"\n">>
L_header == <<"#","#"," ","B","\n">>
L_proj_a == <<"[","a","]","(","u",")","\n">>
L_proj_B == <<" ","[","B","]","(","v",")","\n">>
L_nolink == <<"[","c","]","\n">>
L_emptylink == <<"[","d","]","(",")","\n">>
L_toplevel == <<"*"," ","[","a","]","(","u",")","\n">>
L_blank == <<"\n">>
L_accent == <<"[","U00E9","]","(","u",")","\n">>
L_prose == <<"s","e","e"," ","[","a","]","(","u",")","\n">>

Lines == {L_title, L_header, L_proj_a, L_proj_B, L_nolink, L_emptylink,
          L_toplevel, L_blank}
LinesEnc == Lines \cup {L_accent}

SeqsUpTo(S, n) == UNION {[1..m -> S] : m \in 0..n}

\* a long document: max_lines_test - 1 blank lines, then MaxTail lines
BlankRun == [n \in 1..(max_lines_test - 1) |-> L_blank]
TailLines == {L_header, L_proj_a, L_proj_B}
Documents(S) ==
    SeqsUpTo(S, MaxLines) \cup {BlankRun \o t : t \in [1..MaxTail -> TailLines]}

-----------------------------------------------------------------------------
(* The network: what the server answers to the successive requests of one  *)
(* probe.  A response is a status code or a requests.RequestException.     *)

Statuses == {200, 299, 300, 503}
Faults == {"ReadTimeout", "ConnectionError", "InvalidURL"}
Responses == [status : Statuses, error : {""}] \cup [status : {0}, error : Faults]
\* the response to the first request, and the response a repeated request would get
RepeatResponses == [status : {200, 503}, error : {""}]
Scripts == [first : Responses, next : RepeatResponses]

\* requests.head(url, allow_redirects=True, timeout=5): the module-level call
\* opens a session of its own, without the Retry adapter mounted on `session`,
\* so exactly one request is made and its response is the outcome
requests_head(script) == script.first

\* `except requests.RequestException as e:` every fault requests.head raises
\* is a subclass of RequestException
RequestExceptions == {"ReadTimeout", "ConnectionError", "InvalidURL", "TooManyRedirects"}

\* variant: `except requests.Timeout`
CatchesTimeoutOnly(error) == error = "ReadTimeout"

Catches(error) == error \in RequestExceptions

\* `if response.status_code in range(200, 300):`
IsSuccess(status) == status \in 200..299

\* check_url_exists: (exists, status_or_error); raised says that an exception
\* left the function instead
check_url_exists(url, script) ==
    LET response == requests_head(script)
    IN IF response.error # ""
       THEN [exists |-> FALSE, status |-> 0, error |-> response.error,
             raised |-> ~Catches(response.error)]
       ELSE IF IsSuccess(response.status)
            THEN [exists |-> TRUE, status |-> response.status, error |-> "",
                  raised |-> FALSE]
            ELSE [exists |-> FALSE, status |-> response.status, error |-> "",
                  raised |-> FALSE]

-----------------------------------------------------------------------------
(* Line classification (the prefix tests of triage_lines)                  *)

\* variant: `line.startswith("# Fortran code on GitHub")`
IsTitleSingleHash(line) == StartsWith(line, Tail(TitlePrefix))

IsTitle(line) == StartsWith(line, TitlePrefix)
IsTopLevel(line) == StartsWith(line, <<"*", " ", "[">>)
\* variant: `if "[" in line:`
IsProjectAnywhere(line) == IsIn("[", line)

IsProject(line) == StartsWith(line, <<"[">>)
IsHeading(line) == StartsWith(line, <<"#", "#">>)
IsSectionHeader(line) == IsHeading(line) /\ ~IsTitle(line)

-----------------------------------------------------------------------------
(* checker                                                                 *)

\* re.search(r"\[.*?\]\((.*?)\)", text): a match has "[" at a, "](" at j and
\* ")" at q, with no newline under either ".*?"
NoNewline(text, lo, hi) == \A n \in lo..hi : text[n] # "\n"
IsMatch(text, a, j, q) ==
    /\ text[a] = "[" /\ text[j] = "]" /\ text[j + 1] = "(" /\ text[q] = ")"
    /\ NoNewline(text, a + 1, j - 1)
    /\ NoNewline(text, j + 2, q - 1)
MatchEnds(text, a, j) == {q \in (j + 2)..Len(text) : IsMatch(text, a, j, q)}
MatchMiddles(text, a) == {j \in (a + 1)..(Len(text) - 1) : MatchEnds(text, a, j) # {}}
MatchStarts(text) == {a \in 1..Len(text) : MatchMiddles(text, a) # {}}
ReMatches(text) ==
    UNION {UNION {{<<a, j, q>> : q \in MatchEnds(text, a, j)} :
                    j \in MatchMiddles(text, a)} :
             a \in MatchStarts(text)}

\* the order in which the regex engine tries the matches: the leftmost start
\* first, then the shortest expansion of each lazy quantifier
TriedBefore(m, x) ==
    \/ m[1] < x[1]
    \/ m[1] = x[1] /\ m[2] < x[2]
    \/ m[1] = x[1] /\ m[2] = x[2] /\ m[3] <= x[3]

\* the match found; <<>> when there is none
ReSearch(text) ==
    IF MatchStarts(text) = {} THEN <<>>
    ELSE CHOOSE m \in ReMatches(text) : \A x \in ReMatches(text) : TriedBefore(m, x)

HasMatch(text) == ReSearch(text) # <<>>

\* match.group(1) if match else None (None is read as the empty text here;
\* both are falsy for `if extracted_address:`)
ExtractAddress(text) ==
    LET m == ReSearch(text)
    IN IF m = <<>> THEN <<>> ELSE SubSeq(text, m[2] + 2, m[3] - 1)

\* variant: `if match:`, which an empty locator passes
HasAddressIfMatch(text) == HasMatch(text)

\* `if extracted_address:`
HasAddress(text) == ExtractAddress(text) # <<>>

FpmLink(text) == ExtractAddress(text) \o FpmSuffix

\* the value checker returns when the probe answered `exists`:
\* "".join([text, "\n"]) or None (the empty text stands for None)
SingleTest(text, exists) == IF exists THEN text \o <<"\n">> ELSE <<>>

-----------------------------------------------------------------------------
(* sorted(affirmative_tests, key=str.casefold): a stable sort              *)

SortKey(t) == Casefold(t.s)

\* the place of tests[n] in the sorted list: after every element with a
\* smaller key and every earlier element with the same key
SortedRank(tests, n) ==
    1 + Cardinality({m \in 1..Len(tests) :
            \/ StrLess(SortKey(tests[m]), SortKey(tests[n]))
            \/ SortKey(tests[m]) = SortKey(tests[n]) /\ m < n})

SortedTests(tests) ==
    [r \in 1..Len(tests) |-> tests[CHOOSE n \in 1..Len(tests) : SortedRank(tests, n) = r]]

-----------------------------------------------------------------------------
(* file_reader                                                             *)

max_lines(t) == IF t THEN max_lines_test ELSE 1000000

Take(seq, n) == SubSeq(seq, 1, IF Len(seq) < n THEN Len(seq) ELSE n)

ReadLines(file, t) ==
    LET stripped == [n \in 1..Len(file) |-> Strip(file[n])]
    IN IF t THEN Take(stripped, max_lines(t)) ELSE stripped

-----------------------------------------------------------------------------
(* Standard output                                                         *)

\* whether the stream's encoder accepts the text
NonAscii == {c \in Alphabet : Ord(c) >= 128}
Encodable(text, encoding) ==
    encoding = "utf-8" \/ \A n \in 1..Len(text) : text[n] \notin NonAscii

\* print(text): the text and a newline; kind and src say which print of the
\* program wrote it and for which line of raw_data (0: none)
Item(text, kind, src) == [s |-> text \o <<"\n">>, kind |-> kind, src |-> src]

\* a diagnostic print of the debug mode
Diag(words) == Item(words, "diag", 0)

\* the prints `items` in order; the first one the stream cannot encode raises
\* UnicodeEncodeError and nothing of it or after it is written
PrintAll(written, items, encoding) ==
    LET bad == {n \in 1..Len(items) : ~Encodable(items[n].s, encoding)}
    IN IF bad = {}
       THEN [out |-> written \o items, ok |-> TRUE]
       ELSE [out |-> written \o SubSeq(items, 1, Min(bad) - 1), ok |-> FALSE]

-----------------------------------------------------------------------------
(* Initial states                                                          *)

NoResponse == [status |-> 0, error |-> ""]
NoProbe == [url |-> <<>>, script |-> [first |-> NoResponse, next |-> NoResponse],
            result |-> [exists |-> FALSE, status |-> 0, error |-> "", raised |-> FALSE]]

\* no run to compare to
NoReference == [set |-> FALSE, probes |-> <<>>, out |-> <<>>, pc |-> ""]

InitWith(documents, encodings, debugs) ==
    /\ infile \in documents
    /\ debug \in debugs
    /\ test \in BOOLEAN
    /\ stdout_encoding \in encodings
    /\ raw_data = <<>>
    /\ pc = "file_reader"
    /\ i = 0
    /\ previous_section_title = <<>>
    /\ intermediate_register = <<>>
    /\ affirmative_tests = <<>>
    /\ k = 0
    /\ out = <<>>
    /\ title_src = 0
    /\ probes = <<>>
    /\ last_probe = NoProbe
    /\ reference = NoReference

\* a run on a UTF-8 standard output
Init == InitWith(Documents(Lines), {"utf-8"}, {FALSE})

\* a run on a document with lines of running text
LinesProse == {L_title, L_header, L_proj_a, L_blank, L_prose}
InitProse == InitWith(Documents(LinesProse), {"utf-8"}, {FALSE})

\* a run on a standard output that encodes ASCII only
InitEnc == InitWith(Documents(LinesEnc), {"ascii"}, {FALSE})

-----------------------------------------------------------------------------
(* main: file_reader, then triage_lines                                    *)

\* the diagnostics of file_reader in debug mode
ReaderDiag(file, data) ==
    <<Diag(<<"lines in raw_data to process:">>),
      Diag(<<"array_prior_test_condition: ", ToString(Len(file))>>),
      Diag(<<"array_after_test_condition: ", ToString(Len(data))>>),
      Diag(<<"up to ", ToString(Cardinality({n \in 1..Len(data) : IsProject(data[n])})),
             " projects to consider", "\n">>)>>

FileReader ==
    /\ pc = "file_reader"
    /\ \E data \in {ReadLines(infile, test)} :
       \E p \in {PrintAll(out, IF debug THEN ReaderDiag(infile, data) ELSE <<>>,
                          stdout_encoding)} :
          /\ raw_data' = data
          /\ out' = p.out
          /\ pc' = IF ~p.ok THEN "aborted"
                   ELSE IF data = <<>> THEN "done" ELSE "line"
          /\ i' = IF p.ok /\ data # <<>> THEN 1 ELSE i
    /\ UNCHANGED <<infile, debug, test, stdout_encoding, previous_section_title,
                   intermediate_register, affirmative_tests, k, title_src,
                   probes, last_probe, reference>>

\* variant: `if i == len(raw_data):`, which no position of the loop meets
IsLastLineOffByOne(n, data) == n = Len(data) + 1

\* variant: `if i >= len(raw_data) - 2:`, which the line before the last meets too
IsLastLineEarly(n, data) == n >= Len(data) - 1

\* `if i == len(raw_data) - 1:`
IsLastLine(n, data) == n = Len(data)

\* `for i, line in enumerate(raw_data):` after the line at position n
LoopPc(n, data) == IF n < Len(data) THEN "line" ELSE "done"
LoopIndex(n, data) == IF n < Len(data) THEN n + 1 ELSE n

\* the lines echoed at once: the document's title and the top-level items
EchoItems(line, n) ==
    (IF IsTitle(line) THEN <<Item(line \o <<"\n">>, "echo", n)>> ELSE <<>>)
        \o (IF IsTopLevel(line) THEN <<Item(line \o <<"\n">>, "echo", n)>> ELSE <<>>)

\* variant: the document's title closes the open section like any other heading
MustFlushAnyHeading(line, register) == IsHeading(line) /\ register # <<>>

\* variant: `if len(intermediate_register) > 1:`
MustFlushSeveral(line, register) == IsSectionHeader(line) /\ Len(register) > 1

\* `if intermediate_register:` under a section header
MustFlush(line, register) == IsSectionHeader(line) /\ register # <<>>

\* `if debug: print(f"{len(intermediate_register)} entries to check")`
CountDiag(register) ==
    IF debug THEN <<Diag(<<ToString(Len(register)), " entries to check">>)>> ELSE <<>>

\* One line of raw_data, up to the point where a section is flushed or the
\* line is done.
ProcessLine ==
    /\ pc = "line"
    /\ LET line == raw_data[i]
           register == IF IsProject(line)
                       THEN Append(intermediate_register, [s |-> line, src |-> i])
                       ELSE intermediate_register
           flush == MustFlush(line, register)
           atend == ~flush /\ IsLastLine(i, raw_data)
       IN \E p \in {PrintAll(out, EchoItems(line, i), stdout_encoding)} :
          \E q \in {PrintAll(p.out,
                             IF flush \/ atend THEN CountDiag(register) ELSE <<>>,
                             stdout_encoding)} :
          IF ~p.ok
          THEN /\ out' = p.out
               /\ pc' = "aborted"
               /\ UNCHANGED <<i, previous_section_title, intermediate_register,
                              affirmative_tests, k, title_src>>
          ELSE /\ intermediate_register' = register
               /\ out' = q.out
               /\ previous_section_title' =
                     IF IsSectionHeader(line) /\ ~flush THEN line
                     ELSE previous_section_title
               /\ title_src' = IF IsSectionHeader(line) /\ ~flush THEN i ELSE title_src
               /\ pc' = IF ~q.ok THEN "aborted"
                        ELSE IF flush THEN "flush"
                        ELSE IF atend THEN "end_flush" ELSE LoopPc(i, raw_data)
               /\ i' = IF q.ok /\ ~flush /\ ~atend THEN LoopIndex(i, raw_data) ELSE i
               /\ affirmative_tests' = IF flush \/ atend THEN <<>> ELSE affirmative_tests
               /\ k' = IF flush \/ atend THEN 1 ELSE k
    /\ last_probe' = NoProbe
    /\ UNCHANGED <<infile, debug, test, stdout_encoding, raw_data, probes, reference>>

\* the diagnostics of checker in debug mode
CheckerDiag(text) ==
    IF debug
    THEN <<Diag(Strip(text) \o <<"\n">>), Diag(<<"url: ">> \o ExtractAddress(text) \o <<"\n">>)>>
    ELSE <<>>

\* variant: `for entry in reversed(intermediate_register):`
EntryAtReversed(register, n) == register[Len(register) + 1 - n]

\* `for entry in intermediate_register:` the entry of the n-th iteration
EntryAt(register, n) == register[n]

\* what the server may answer to the probe of the project line at position
\* src: anything, but in a run that is compared to a reference run the probe
\* has the outcome it had there
Answers(src) ==
    {script \in Scripts :
        \A j \in 1..Len(reference.probes) :
            reference.probes[j].src = src =>
                reference.probes[j].exists = IsSuccess(requests_head(script).status)}

\* `test = checker(entry, debug)` and the append that follows, for the entry
\* at position k of intermediate_register
CheckEntry(where) ==
    /\ pc = where
    /\ k <= Len(intermediate_register)
    /\ LET entry == EntryAt(intermediate_register, k)
       IN IF ~HasAddress(entry.s)
          THEN /\ k' = k + 1
               /\ last_probe' = NoProbe
               /\ UNCHANGED <<pc, out, affirmative_tests, probes>>
          ELSE \E p \in {PrintAll(out, CheckerDiag(entry.s), stdout_encoding)} :
                  IF ~p.ok
                  THEN /\ out' = p.out
                       /\ pc' = "aborted"
                       /\ last_probe' = NoProbe
                       /\ UNCHANGED <<k, affirmative_tests, probes>>
                  ELSE \E script \in Answers(entry.src) :
                         LET url == FpmLink(entry.s)
                             result == check_url_exists(url, script)
                             single_test == SingleTest(entry.s, result.exists)
                         IN /\ last_probe' = [url |-> url, script |-> script,
                                              result |-> result]
                            /\ probes' = Append(probes,
                                  [src |-> entry.src, exists |-> result.exists,
                                   at |-> i, where |-> where])
                            /\ affirmative_tests' =
                                  IF ~result.raised /\ single_test # <<>>
                                  THEN Append(affirmative_tests,
                                              [s |-> single_test, src |-> entry.src])
                                  ELSE affirmative_tests
                            /\ out' = p.out
                            /\ k' = IF result.raised THEN k ELSE k + 1
                            /\ pc' = IF result.raised THEN "aborted" ELSE pc
    /\ UNCHANGED <<infile, debug, test, stdout_encoding, raw_data, i,
                   previous_section_title, intermediate_register, title_src,
                   reference>>

\* the loop over intermediate_register under a section header
CheckEntryAtHeader == CheckEntry("flush")

\* the loop over intermediate_register after the last line
CheckEntryAtEnd == CheckEntry("end_flush")

\* variant: the section block is printed without the test for validated entries
HasAffirmativeAlways(tests) == TRUE

\* `if affirmative_tests:`
HasAffirmative(tests) == tests # <<>>

\* the order in which a section that a header closes prints its entries
HeaderOrder(tests) == SortedTests(tests)

\* the order in which the section open at the end of raw_data prints its entries
EndOrder(tests) == tests

\* the section block: the title, then the entries
SectionItems(tests) ==
    <<Item(previous_section_title \o <<"\n">>, "header", title_src)>>
        \o [n \in 1..Len(tests) |-> Item(tests[n].s, "entry", tests[n].src)]

\* The end of the flush under a section header: the block is printed, the
\* register emptied, the header becomes the title, and the line is done.
EmitAtHeader ==
    /\ pc = "flush"
    /\ k > Len(intermediate_register)
    /\ LET atend == IsLastLine(i, raw_data)
       IN \E ordered \in {IF HasAffirmative(affirmative_tests)
                           THEN HeaderOrder(affirmative_tests)
                           ELSE affirmative_tests} :
          \E p \in {PrintAll(out,
                             IF HasAffirmative(affirmative_tests)
                             THEN SectionItems(ordered) ELSE <<>>,
                             stdout_encoding)} :
          \E q \in {PrintAll(p.out, IF atend THEN CountDiag(<<>>) ELSE <<>>,
                             stdout_encoding)} :
          IF ~p.ok
          THEN /\ out' = p.out
               /\ pc' = "aborted"
               /\ UNCHANGED <<i, previous_section_title, intermediate_register,
                              affirmative_tests, k, title_src>>
          ELSE /\ out' = q.out
               /\ intermediate_register' = <<>>
               /\ previous_section_title' = raw_data[i]
               /\ title_src' = i
               /\ pc' = IF ~q.ok THEN "aborted"
                        ELSE IF atend THEN "end_flush" ELSE LoopPc(i, raw_data)
               /\ i' = IF q.ok /\ ~atend THEN LoopIndex(i, raw_data) ELSE i
               /\ affirmative_tests' = IF atend THEN <<>> ELSE ordered
               /\ k' = IF atend THEN 1 ELSE k
    /\ last_probe' = NoProbe
    /\ UNCHANGED <<infile, debug, test, stdout_encoding, raw_data, probes, reference>>

\* The end of the flush after the last line; the loop goes on to its end and
\* triage_lines returns.
EmitAtEnd ==
    /\ pc = "end_flush"
    /\ k > Len(intermediate_register)
    /\ \E p \in {PrintAll(out,
                          IF HasAffirmative(affirmative_tests)
                          THEN SectionItems(EndOrder(affirmative_tests))
                          ELSE <<>>,
                          stdout_encoding)} :
          /\ out' = p.out
          /\ pc' = IF p.ok THEN LoopPc(i, raw_data) ELSE "aborted"
          /\ i' = IF p.ok THEN LoopIndex(i, raw_data) ELSE i
    /\ last_probe' = NoProbe
    /\ UNCHANGED <<infile, debug, test, stdout_encoding, raw_data,
                   previous_section_title, intermediate_register,
                   affirmative_tests, k, title_src, probes, reference>>

Next ==
    \/ FileReader
    \/ ProcessLine
    \/ CheckEntryAtHeader
    \/ EmitAtHeader
    \/ CheckEntryAtEnd
    \/ EmitAtEnd

Spec == Init /\ [][Next]_vars

SpecEnc == InitEnc /\ [][Next]_vars

SpecProse == InitProse /\ [][Next]_vars

-----------------------------------------------------------------------------
(* The same input run twice: without --debug, then with --debug            *)

IsPlain(item) == item.kind # "diag"

\* the output without the diagnostics of the debug mode
Plain(written) == SelectSeq(written, IsPlain)

LinesDebug == {L_title, L_header, L_proj_a, L_accent, L_toplevel}

InitDebug == InitWith(Documents(LinesDebug), {"utf-8", "ascii"}, {FALSE})

\* main is started again with --debug once the run without it is over; the
\* file, the other flags, the standard output and the server are the same
Rerun ==
    /\ pc \in {"done", "aborted"}
    /\ ~debug
    /\ reference' = [set |-> TRUE, probes |-> probes, out |-> Plain(out), pc |-> pc]
    /\ debug' = TRUE
    /\ pc' = "file_reader"
    /\ raw_data' = <<>>
    /\ i' = 0
    /\ previous_section_title' = <<>>
    /\ intermediate_register' = <<>>
    /\ affirmative_tests' = <<>>
    /\ k' = 0
    /\ out' = <<>>
    /\ title_src' = 0
    /\ probes' = <<>>
    /\ last_probe' = NoProbe
    /\ UNCHANGED <<infile, test, stdout_encoding>>

NextDebug ==
    \/ Next
    \/ Rerun

SpecDebug == InitDebug /\ [][NextDebug]_vars

-----------------------------------------------------------------------------
(* xfpm.py: file_reader calls checker on every line as it is read; the     *)
(* lines keep their newline, i counts the lines already handed to checker  *)

\* `max_lines = 125 if test else 10**6`
xfpm_max_lines(t) == IF t THEN 125 ELSE 1000000

\* `if text.startswith("*") or text.startswith("##"):  # category marker`
IsMarker(text) == StartsWith(text, <<"*">>) \/ StartsWith(text, <<"#", "#">>)

\* `print("\n", i)`, `print(text.strip())`, `print(f"url: {extracted_address}")`
XfpmCheckerDiag(text, n) ==
    IF debug
    THEN <<Diag(<<"\n", " ", ToString(n)>>), Diag(Strip(text)),
           Diag(<<"url: ">> \o ExtractAddress(text))>>
    ELSE <<>>

\* `try: print(text)` and its handler, which prints a notice in ASCII
XfpmEntryItems(text, n) ==
    IF Encodable(text, stdout_encoding)
    THEN <<Item(text, "entry", n)>>
    ELSE <<Item(<<"An encoding error occurred: ">>, "notice", n)>>

\* `if debug: print(fpm_link)`
XfpmLinkDiag(text) == IF debug THEN <<Diag(FpmLink(text))>> ELSE <<>>

\* checker(text, debug, i) for the next line of infile
XfpmChecker ==
    /\ pc = "file_reader"
    /\ i < Len(infile)
    /\ ~(i > xfpm_max_lines(test))
    /\ LET text == infile[i + 1]
       IN \E p \in {PrintAll(out,
                              IF IsMarker(text) THEN <<Item(text, "echo", i + 1)>> ELSE <<>>,
                              stdout_encoding)} :
          IF ~p.ok
          THEN /\ out' = p.out
               /\ pc' = "aborted"
               /\ last_probe' = NoProbe
               /\ UNCHANGED <<i, probes>>
          ELSE IF ~HasAddress(text)
          THEN /\ out' = p.out
               /\ i' = i + 1
               /\ last_probe' = NoProbe
               /\ UNCHANGED <<pc, probes>>
          ELSE \E q \in {PrintAll(p.out, XfpmCheckerDiag(text, i), stdout_encoding)} :
               IF ~q.ok
               THEN /\ out' = q.out
                    /\ pc' = "aborted"
                    /\ last_probe' = NoProbe
                    /\ UNCHANGED <<i, probes>>
               ELSE \E script \in Answers(i + 1) :
                    \E result \in {check_url_exists(FpmLink(text), script)} :
                    \E w \in {PrintAll(q.out,
                                        IF result.exists
                                        THEN XfpmEntryItems(text, i + 1) \o XfpmLinkDiag(text)
                                        ELSE <<>>,
                                        stdout_encoding)} :
                       /\ last_probe' = [url |-> FpmLink(text), script |-> script,
                                         result |-> result]
                       /\ probes' = Append(probes,
                                       [src |-> i + 1, exists |-> result.exists,
                                        at |-> i + 1, where |-> "checker"])
                       /\ out' = w.out
                       /\ pc' = IF result.raised \/ ~w.ok THEN "aborted" ELSE pc
                       /\ i' = IF result.raised \/ ~w.ok THEN i ELSE i + 1
    /\ UNCHANGED <<infile, debug, test, stdout_encoding, raw_data,
                   previous_section_title, intermediate_register,
                   affirmative_tests, k, title_src, reference>>

\* the loop of file_reader ends: the file is exhausted, or `if i > max_lines: break`
XfpmReturn ==
    /\ pc = "file_reader"
    /\ i >= Len(infile) \/ i > xfpm_max_lines(test)
    /\ pc' = "done"
    /\ last_probe' = NoProbe
    /\ UNCHANGED <<infile, debug, test, stdout_encoding, raw_data, i,
                   previous_section_title, intermediate_register,
                   affirmative_tests, k, out, title_src, probes, reference>>

XfpmNext ==
    \/ XfpmChecker
    \/ XfpmReturn

XfpmSpec == Init /\ [][XfpmNext]_vars

-----------------------------------------------------------------------------
(* Vocabulary of the properties                                            *)

Max(S) == CHOOSE n \in S : \A m \in S : m <= n

\* the positions of raw_data that open a section; 0 is the implicit section
\* with the empty title that holds the projects before the first header
SectionHeaderText(text) ==
    StartsWith(text, <<"#", "#">>) /\ ~StartsWith(text, TitlePrefix)
TopLevelText(text) == StartsWith(text, <<"*", " ", "[">>)
SectionStarts ==
    {0} \cup {h \in 1..Len(raw_data) : SectionHeaderText(raw_data[h])}

\* the section a line belongs to: the nearest section header before it
OriginOf(n) == Max({h \in SectionStarts : h < n})

\* the text of a section's header line
HeaderText(h) == IF h = 0 THEN <<>> ELSE raw_data[h]

\* the position at which the section of line n closes: the next section
\* header, or the last line of raw_data
CloseOf(n) ==
    LET later == {h \in SectionStarts : h > n}
    IN IF later = {} THEN Len(raw_data) ELSE Min(later)

\* the project lines of raw_data
ProjectLines == {n \in 1..Len(raw_data) : StartsWith(raw_data[n], <<"[">>)}

ProbesOf(n) == {j \in 1..Len(probes) : probes[j].src = n}
Validated(n) == \E j \in ProbesOf(n) : probes[j].exists

\* what print writes for a line: the line, the "\n" joined to it, print's "\n"
Printed(text) == text \o <<"\n", "\n">>

HeaderItems(h) == {n \in 1..Len(out) : out[n].kind = "header" /\ out[n].src = h}
EntryItems(c) == {n \in 1..Len(out) : out[n].kind = "entry" /\ out[n].src = c}

\* the header item that opens the block an entry item stands in (0: none)
BlockOf(n) ==
    LET before == {m \in 1..(n - 1) : out[m].kind # "entry"}
    IN IF before = {} THEN 0
       ELSE IF out[Max(before)].kind = "header" THEN Max(before) ELSE 0

-----------------------------------------------------------------------------
(* C1: a section none of whose projects was probed with success never has  *)
(* its header line written to the output.                                  *)
C1_NoHeaderForFailedSection ==
    \A h \in SectionStarts :
        (\A c \in ProjectLines : OriginOf(c) = h => ~Validated(c))
            => HeaderItems(h) = {}

\* a finished run with a section whose projects were all probed and all
\* failed, and another section that was printed
C1_Witness ==
    /\ pc = "done"
    /\ \E h \in SectionStarts :
        /\ \E c \in ProjectLines : OriginOf(c) = h /\ ProbesOf(c) # {}
        /\ \A c \in ProjectLines : OriginOf(c) = h => ~Validated(c)
        /\ HeaderItems(h) = {}
    /\ \E n \in 1..Len(out) : out[n].kind = "header"

(* C2: when the run is over, every project line whose probe reported 2xx  *)
(* is in the output, verbatim, in the block that opens with the header of  *)
(* its own section (the empty title before the first header).              *)
C2_ValidatedEntryUnderHeader ==
    pc = "done" =>
        \A c \in ProjectLines :
            Validated(c) =>
                \E n \in EntryItems(c) :
                    /\ out[n].s = Printed(raw_data[c])
                    /\ BlockOf(n) # 0
                    /\ out[BlockOf(n)].src = OriginOf(c)
                    /\ out[BlockOf(n)].s = Printed(HeaderText(OriginOf(c)))

\* a finished run with a validated project under a real header and one under
\* the implicit empty title
C2_Witness ==
    /\ pc = "done"
    /\ \E c, d \in ProjectLines :
        /\ Validated(c) /\ OriginOf(c) = 0
        /\ Validated(d) /\ OriginOf(d) # 0
        /\ EntryItems(c) # {} /\ EntryItems(d) # {}

(* C3: in every block of the output, consecutive entries are in            *)
(* case-insensitive order of their text, and entries with equal keys are   *)
(* in the order of their lines.                                            *)
C3_BlocksSorted ==
    \A n \in 1..(Len(out) - 1) :
        (out[n].kind = "entry" /\ out[n + 1].kind = "entry") =>
            /\ ~StrLess(Casefold(out[n + 1].s), Casefold(out[n].s))
            /\ Casefold(out[n + 1].s) = Casefold(out[n].s) => out[n].src < out[n + 1].src

(* C4 as stated: when the run is over, every project line that entered     *)
(* intermediate_register has been probed exactly once.                     *)
C4_EveryBufferedProbedOnce ==
    pc = "done" => \A c \in ProjectLines : Cardinality(ProbesOf(c)) = 1

\* whether a non-empty locator can be extracted from the project line
HasLocator(c) == ExtractAddress(raw_data[c]) # <<>>

(* C4 as amended: a buffered project line is probed only if it has a       *)
(* non-empty locator, only while the line that closes its section (the     *)
(* next section header, or the last line) is being processed, and never    *)
(* twice; when triage_lines returns every project line with a locator has  *)
(* been probed exactly once.                                               *)
C4_ProbedOnceAtClose ==
    /\ \A c \in ProjectLines : Cardinality(ProbesOf(c)) <= 1
    /\ \A j \in 1..Len(probes) :
        /\ probes[j].src \in ProjectLines
        /\ HasLocator(probes[j].src)
        /\ probes[j].at = CloseOf(probes[j].src)
    /\ pc = "done" =>
        \A c \in ProjectLines : HasLocator(c) => Cardinality(ProbesOf(c)) = 1

\* a finished run that probed one project under a closing header and one
\* after the last line
C4_Witness ==
    /\ pc = "done"
    /\ \E j, m \in 1..Len(probes) :
        probes[j].where = "flush" /\ probes[m].where = "end_flush"

(* C5: a run never stops before triage_lines has returned, and when it    *)
(* has, the section that was open at the end of raw_data is resolved: its  *)
(* projects with a locator are probed and the validated ones are printed   *)
(* under the section's header.                                             *)
C5_EndOfStreamFlush ==
    /\ pc = "done" \/ ENABLED Next
    /\ pc = "done" =>
        \A c \in ProjectLines :
            OriginOf(c) = Max(SectionStarts) =>
                /\ HasLocator(c) => ProbesOf(c) # {}
                /\ Validated(c) =>
                    \E n \in EntryItems(c) :
                        /\ out[n].s = Printed(raw_data[c])
                        /\ BlockOf(n) # 0
                        /\ out[BlockOf(n)].src = OriginOf(c)
                        /\ out[BlockOf(n)].s = Printed(HeaderText(OriginOf(c)))

\* a finished test run whose input was truncated and whose last kept line
\* is a validated project, printed by the final flush
C5_Witness ==
    /\ pc = "done"
    /\ test
    /\ Len(raw_data) < Len(infile)
    /\ ~SectionHeaderText(raw_data[Len(raw_data)])
    /\ EntryItems(Len(raw_data)) # {}
    /\ probes[Len(probes)].where = "end_flush"

(* C6: a probe whose first response is a transient server error and whose  *)
(* repeated request would be answered 2xx is reported reachable.           *)
C6_TransientErrorRetried ==
    (/\ last_probe # NoProbe
     /\ last_probe.script.first.status \in TransientStatuses
     /\ last_probe.script.next.status \in 200..299)
        => last_probe.result.exists

(* C7: check_url_exists never raises and reports reachable exactly for a   *)
(* status in 200..299, the status or the error text being the detail; no   *)
(* failed probe ends the run, which goes on to the last line and probes    *)
(* every project that has a locator.                                       *)
C7_FailureNeverAborts ==
    /\ pc # "aborted"
    /\ last_probe # NoProbe =>
        LET response == last_probe.script.first
            result == last_probe.result
        IN /\ ~result.raised
           /\ result.exists <=>
                (response.error = "" /\ response.status >= 200 /\ response.status <= 299)
           /\ result.error = response.error
           /\ response.error = "" => result.status = response.status
    /\ pc = "done" =>
        /\ i = Len(raw_data)
        /\ \A c \in ProjectLines : HasLocator(c) => ProbesOf(c) # {}

\* a probe that met a transport fault was followed by a probe answered 299
C7_Witness ==
    /\ Len(probes) >= 2
    /\ ~probes[Len(probes) - 1].exists
    /\ last_probe.script.first.status = 299
    /\ last_probe.result.exists
    /\ \E n \in ProjectLines :
        ProbesOf(n) = {Len(probes) - 1} /\ raw_data[n] = Strip(L_proj_a)

(* C8: a write that the output stream cannot encode does not end the run.  *)
C8_EncodingErrorCaught == pc # "aborted"

(* C9: a line that starts with "* [" is written to the output in the step  *)
(* that reads it, whatever was probed before; that step leaves the         *)
(* register and the probes as they are, and no such line is ever in the    *)
(* register or probed.                                                     *)
C9_TopLevelEchoed ==
    /\ [][(pc = "line" /\ TopLevelText(raw_data[i])) =>
            /\ Len(out') = Len(out) + 1
            /\ out'[Len(out')].s = Printed(raw_data[i])
            /\ out'[Len(out')].src = i
            /\ intermediate_register' = intermediate_register
            /\ probes' = probes]_vars
    /\ [](/\ \A n \in 1..Len(intermediate_register) :
               ~TopLevelText(intermediate_register[n].s)
          /\ \A j \in 1..Len(probes) : ~TopLevelText(raw_data[probes[j].src]))

\* a top-level item was echoed after a probe that failed and one that succeeded
C9_Witness ==
    /\ out # <<>>
    /\ out[Len(out)].kind = "echo"
    /\ TopLevelText(raw_data[out[Len(out)].src])
    /\ \E j, m \in 1..Len(probes) : probes[j].exists /\ ~probes[m].exists

\* no "[label](locator)" pattern in the project line, or an empty locator
LocatorLess(c) == MatchStarts(raw_data[c]) = {} \/ ~HasLocator(c)

(* C10: a project line without a "[label](locator)" pattern, or with an    *)
(* empty locator, is never probed and never printed, and a section that    *)
(* holds only such lines never has its header printed.                     *)
C10_NoLocatorNoOutput ==
    \A c \in ProjectLines :
        LocatorLess(c) =>
            /\ ProbesOf(c) = {}
            /\ EntryItems(c) = {}
            /\ (\A d \in ProjectLines : OriginOf(d) = OriginOf(c) => LocatorLess(d))
                  => HeaderItems(OriginOf(c)) = {}

\* a finished run that held a line without pattern and a line with an empty
\* locator, and printed a project of another section
C10_Witness ==
    /\ pc = "done"
    /\ \E c, d \in ProjectLines :
        /\ MatchStarts(raw_data[c]) = {}
        /\ MatchStarts(raw_data[d]) # {} /\ ~HasLocator(d)
    /\ \E n \in 1..Len(out) : out[n].kind = "entry"

(* C11: with the test flag set, file_reader passes on at most the 125      *)
(* lines that the help text of --test names.                               *)
C11_TestRunWithinHelpLimit ==
    (test /\ pc # "file_reader") => Len(raw_data) <= test_help_lines

\* the run with --debug is over
DebugRunOver == reference.set /\ pc \in {"done", "aborted"}

(* C12: for the same input and the same probe outcomes, the run with       *)
(* --debug issues the probes of the run without it, in the same order, and *)
(* writes the same lines apart from the diagnostics.                       *)
C12_DebugHasNoEffect ==
    DebugRunOver =>
        /\ probes = reference.probes
        /\ Plain(out) = reference.out

\* line h has passed `previous_section_title = line`
HeaderDone(h) == h < i \/ (h = i /\ pc \in {"end_flush", "done"})

\* nothing after that assignment for line h has been run
JustAfterHeader(h) ==
    \/ pc = "line" /\ i = h + 1
    \/ pc \in {"end_flush", "done"} /\ i = h

(* C13: once a section header line has been processed, the register is     *)
(* empty and previous_section_title is that line; at every point of the    *)
(* run the register holds only project lines that come after every section *)
(* header processed so far.                                                *)
C13_HeaderOpensEmptySection ==
    \A h \in 1..Len(raw_data) :
        SectionHeaderText(raw_data[h]) =>
            /\ JustAfterHeader(h) =>
                  /\ intermediate_register = <<>>
                  /\ previous_section_title = raw_data[h]
            /\ HeaderDone(h) =>
                  \A n \in 1..Len(intermediate_register) :
                      intermediate_register[n].src > h

\* a header that closed a section with a project has been processed, and a
\* project after it is in the register
C13_Witness ==
    \E h \in 1..Len(raw_data) :
        /\ SectionHeaderText(raw_data[h])
        /\ HeaderDone(h)
        /\ \E j \in 1..Len(probes) : probes[j].at = h /\ probes[j].where = "flush"
        /\ intermediate_register # <<>>

\* the document's own title, and the lines of no category
TitleText(text) == StartsWith(text, TitlePrefix)
OtherText(text) ==
    /\ ~StartsWith(text, <<"#", "#">>)
    /\ ~StartsWith(text, <<"*", " ", "[">>)
    /\ ~StartsWith(text, <<"[">>)

(* C14: the step that processes the document's title or a line of no       *)
(* category leaves intermediate_register and previous_section_title as     *)
(* they are, issues no probe and starts no flush of a section header; the  *)
(* title is echoed and a line of no category writes nothing.  Only when    *)
(* the line is the last one of raw_data does the end-of-stream flush       *)
(* follow, and no other probe is ever issued at such a line.               *)
C14_TitleAndOtherLeaveState ==
    /\ [][(pc = "line" /\ (TitleText(raw_data[i]) \/ OtherText(raw_data[i]))) =>
            /\ intermediate_register' = intermediate_register
            /\ previous_section_title' = previous_section_title
            /\ title_src' = title_src
            /\ probes' = probes
            /\ pc' \in {"line", "end_flush", "done"}
            /\ pc' = "end_flush" <=> i = Len(raw_data)
            /\ out' = IF TitleText(raw_data[i])
                      THEN Append(out, [s |-> Printed(raw_data[i]), kind |-> "echo",
                                        src |-> i])
                      ELSE out]_vars
    /\ [](\A j \in 1..Len(probes) :
            (TitleText(raw_data[probes[j].at]) \/ OtherText(raw_data[probes[j].at])) =>
                probes[j].where = "end_flush" /\ probes[j].at = Len(raw_data))

\* a title and a line of running text that holds a link were processed
\* while a project was in the register, which was probed after them
C14_Witness ==
    /\ pc = "done"
    /\ \E t, o \in 1..Len(raw_data) :
        /\ TitleText(raw_data[t])
        /\ OtherText(raw_data[o]) /\ raw_data[o] # <<>>
        /\ \E j \in 1..Len(probes) : probes[j].src < t /\ probes[j].src < o

\* the items that open an echoed line or a section block, as positions of out
Openers == {n \in 1..Len(out) : out[n].kind \in {"echo", "header"}}

(* C15 as stated: echoed lines and section blocks stand in the output in   *)
(* the document order of the echoed line and of the block's header line.   *)
C15_OrderByHeaderPosition ==
    \A m, n \in Openers : m < n => out[m].src < out[n].src

\* the line at which an item is due: an echoed line at its own position, a
\* section block at the line that closes its section
DueAt(item) == IF item.kind = "echo" THEN item.src ELSE CloseOf(item.src)

(* C15 as amended: echoed lines and section blocks stand in the output in  *)
(* the document order of the echoed line and of the line that closes the   *)
(* block's section (the next section header, or the last line); an echoed  *)
(* last line stands before the block that the end of the input closes, and *)
(* section blocks stand in the order of their headers.                     *)
C15_OrderByClosePosition ==
    \A m, n \in Openers :
        m < n =>
            /\ DueAt(out[m]) <= DueAt(out[n])
            /\ DueAt(out[m]) = DueAt(out[n]) =>
                  out[m].kind = "echo" /\ out[n].kind = "header"
            /\ (out[m].kind = "header" /\ out[n].kind = "header") =>
                  out[m].src < out[n].src

\* a finished run that echoed a line of a section after one of the section's
\* projects and before the section's block, which stands under a real header
C15_Witness ==
    /\ pc = "done"
    /\ \E m, n \in Openers :
        /\ m < n
        /\ out[m].kind = "echo" /\ out[n].kind = "header"
        /\ 0 < out[n].src /\ out[n].src < out[m].src
        /\ \E c \in ProjectLines :
            /\ OriginOf(c) = out[n].src /\ c < out[m].src
            /\ EntryItems(c) # {}

(* C16: the probes are issued one after the other in the document order of *)
(* their project lines: a step issues at most one probe, which has         *)
(* returned (check_url_exists is a blocking call) when the step is over,   *)
(* and every probe issued so far is for an earlier line than the next.     *)
C16_ProbesInDocumentOrder ==
    /\ [][/\ Len(probes') \in {Len(probes), Len(probes) + 1}
          /\ SubSeq(probes', 1, Len(probes)) = probes
          /\ Len(probes') = Len(probes) + 1 =>
                /\ last_probe' # NoProbe
                /\ last_probe'.url = FpmLink(raw_data[probes'[Len(probes')].src])
                /\ last_probe'.result.exists = probes'[Len(probes')].exists
                /\ \A j \in 1..Len(probes) : probes[j].src < probes'[Len(probes')].src]_vars
    /\ [](\A j, m \in 1..Len(probes) : j < m => probes[j].src < probes[m].src)

\* a finished run that probed projects of two sections, one under the
\* closing header and one after the last line, the first without success
C16_Witness ==
    /\ pc = "done"
    /\ Len(probes) >= 2
    /\ ~probes[1].exists
    /\ probes[1].where = "flush"
    /\ probes[Len(probes)].where = "end_flush"

\* the prints of checker (xfpm.py) that write the line at position n
WritesOf(n) ==
    {m \in 1..Len(out) : out[m].src = n /\ out[m].kind \in {"echo", "entry"}}

MarkerText(text) == StartsWith(text, <<"*">>) \/ StartsWith(text, <<"#", "#">>)

(* C17: checker of xfpm.py writes every line of the input at most once,    *)
(* and a line that starts with "*" or "##" is never probed.                *)
C17_MarkerWrittenOnce ==
    /\ \A n \in 1..Len(infile) : Cardinality(WritesOf(n)) <= 1
    /\ \A j \in 1..Len(probes) : ~MarkerText(infile[probes[j].src])

====
